---------------------------- MODULE Spec2Model ----------------------------
(***************************************************************************)
(* Model of VelodynePuckDecoder (velodyne_puck_decoder.cpp): the packet    *)
(* decode pipeline and the sweep-boundary state machine of packetCallback. *)
(*                                                                         *)
(* Number representation (the code computes in double):                    *)
(*   angles     integer multiples of 1/4800 degree, so that a raw azimuth  *)
(*              (1/100 degree) is 48 units, the halving of the odd-firing  *)
(*              interpolation and the /24 of the per-channel refinement    *)
(*              are exact;                                                 *)
(*   distances  millimetres (a raw count is 2 mm);                         *)
(*   times      multiples of DSR_TOFFSET (one channel slot).               *)
(*   products   the coordinates are products of a distance and of sines    *)
(*              and cosines; sin and cos are kept uninterpreted, and a     *)
(*              product is kept as its sign and its factors in order.      *)
(* Fields of a point named src are history (which delivery, firing and raw *)
(* channel produced the point); the code does not store them.              *)
(***************************************************************************)
EXTENDS Integers, Sequences, FiniteSets, TLC

\* ------------------------------------------------------------------ bounds
\* Number of packets delivered to packetCallback in one behaviour.
MaxPackets == 3

\* --------------------------------------------------------------- constants
BLOCKS_PER_PACKET == 12
FIRINGS_PER_BLOCK == 2
FIRINGS_PER_PACKET == BLOCKS_PER_PACKET * FIRINGS_PER_BLOCK
SCANS_PER_FIRING == 16
RAW_SCAN_SIZE == 3
\* bytes of a block's data area: 2 firings x 16 scans x 3 bytes
BLOCK_DATA_SIZE == FIRINGS_PER_BLOCK * SCANS_PER_FIRING * RAW_SCAN_SIZE
\* 0xeeff
UPPER_BANK == 61183
\* bytes of msg->data: 12 blocks of 100 bytes, 4 bytes time stamp, 2 factory
PACKET_SIZE == 1206
\* angle units per raw azimuth count (1/100 degree)
AZ_PER_RAW == 48
TWO_PI == 36000 * AZ_PER_RAW
\* millimetres per raw distance count
DISTANCE_RESOLUTION == 2
\* time of one channel slot and of one firing, in channel slots
DSR_TOFFSET == 1
FIRING_TOFFSET == 24

Firings == 0 .. FIRINGS_PER_PACKET - 1
Scans == 0 .. SCANS_PER_FIRING - 1
Blocks == 0 .. BLOCKS_PER_PACKET - 1

\* A parameter of the parameter server is << >> (not set) or <<value>>.
NoParam == << >>

VARIABLES
  params,             \* the private node handle's parameter server contents
  phase,              \* "constructed" until initialize() has returned
  min_range,          \* mm
  max_range,          \* mm
  is_first_sweep,
  last_azimuth,
  packet_start_time,
  sweep_data_ptr,     \* the address the shared pointer sweep_data holds
  sweep_data,         \* the object sweep_data points to: scans[0..15]
  published,          \* the sweeps passed to sweep_pub.publish, as passed
  handed,             \* the addresses passed to sweep_pub.publish
  delivered,          \* history: pool indices of the messages delivered
  decoded,            \* history: delivery numbers that reached decodePacket
  cuts                \* history: <<delivery, firing>> where each sweep began

vars == <<params, phase, min_range, max_range, is_first_sweep, last_azimuth,
          packet_start_time, sweep_data_ptr, sweep_data, published, handed,
          delivered, decoded, cuts>>

\* ------------------------------------------------------------------ inputs
\* Raw distances (counts of 2 mm) a channel returns: none, 0.2 m, 2 m, 15 m,
\* 40 m, 120 m.  They fall on both sides of every range limit used below.
ReturnValues == <<0, 100, 1000, 7500, 20000, 60000>>

\* The raw distance of firing f, channel c under return pattern pat: most
\* channels have no return (0), so that a packet carries few points.
RawReturn(pat, f, c) ==
  LET s == (f + 3 * c + pat) % 32
  IN  IF s < 5 THEN ReturnValues[s + 2] ELSE ReturnValues[1]

\* The data area of block blk under return pattern pat: per scan, distance
\* low byte, distance high byte (little endian), intensity.
BlockData(pat, blk) ==
  [b \in 0 .. BLOCK_DATA_SIZE - 1 |->
     LET slot == b \div RAW_SCAN_SIZE
         f == blk * FIRINGS_PER_BLOCK + slot \div SCANS_PER_FIRING
         c == slot % SCANS_PER_FIRING
         raw == RawReturn(pat, f, c)
     IN  CASE b % RAW_SCAN_SIZE = 0 -> raw % 256
           [] b % RAW_SCAN_SIZE = 1 -> raw \div 256
           [] OTHER -> (7 * f + c) % 256]

\* A RawPacket as packetCallback reads it through the cast of line 164.
MakePacket(rot, pat, badBlock) ==
  [blocks |-> [blk \in Blocks |->
     [header |-> IF blk = badBlock THEN UPPER_BANK - 1 ELSE UPPER_BANK,
      rotation |-> rot[blk + 1],
      data |-> BlockData(pat, blk)]]]

\* Block azimuths (raw, 1/100 degree) of the packets delivered.
RotLow == <<1000, 1200, 1400, 1600, 1800, 2000, 2200, 2400, 2600, 2800, 3000, 3200>>
RotHigh == <<30000, 30000, 30800, 31200, 31600, 32000, 32400, 32800, 33200, 33600, 34000, 34400>>
\* crosses 0 degrees between block 3 and block 4: first decrease at firing 8
RotCross8 == <<35500, 35600, 35700, 35800, 50, 150, 250, 350, 450, 550, 650, 750>>
\* crosses 0 degrees inside block 1: first decrease at the odd firing 3
RotCross3 == <<35800, 35950, 150, 300, 450, 600, 750, 900, 1050, 1200, 1350, 1500>>
\* two decreases: at firing 6 and at firing 14; the midpoint of blocks 2 and
\* 3 (359.00 and 1.00 degrees), firing 5, is 360.00 degrees
RotTwice == <<20000, 21000, 35900, 100, 6000, 7000, 8000, 2000, 3000, 4000, 4500, 5000>>
\* non-decreasing block azimuths whose extrapolated firing 23 passes 360
RotTail == <<25000, 25100, 25200, 25300, 25400, 25500, 25600, 25700, 25800, 25900, 26000, 35000>>

\* The messages the transport can deliver.  len is the length of msg->data;
\* packet is what the cast of line 164 makes the code read.  For a buffer
\* shorter than a RawPacket the bytes past its end are whatever follows it in
\* memory: both a continuation with valid headers and one without are listed.
MessagePool ==
  << [len |-> PACKET_SIZE, packet |-> MakePacket(RotLow, 0, -1)],
     [len |-> PACKET_SIZE, packet |-> MakePacket(RotHigh, 1, -1)],
     [len |-> PACKET_SIZE, packet |-> MakePacket(RotCross8, 2, -1)],
     [len |-> PACKET_SIZE, packet |-> MakePacket(RotCross3, 3, -1)],
     [len |-> PACKET_SIZE, packet |-> MakePacket(RotTwice, 4, -1)],
     [len |-> PACKET_SIZE, packet |-> MakePacket(RotTail, 5, -1)],
     [len |-> PACKET_SIZE, packet |-> MakePacket(RotCross8, 7, 5)],
     [len |-> PACKET_SIZE - 100, packet |-> MakePacket(RotCross3, 0, -1)],
     [len |-> PACKET_SIZE - 100, packet |-> MakePacket(RotLow, 1, 11)] >>

\* Parameter server contents (metres are held in mm).
ParamSets ==
  { [min_range |-> NoParam, max_range |-> NoParam, frequency |-> NoParam],
    [min_range |-> <<1000>>, max_range |-> <<10000>>, frequency |-> <<50>>] }


\* ---------------------------------------------------------------- decoding
\* rawAzimuthToDouble: 1/100 degree to the angle unit of the model.
rawAzimuthToDouble(raw_azimuth) == raw_azimuth * AZ_PER_RAW

\* isPointInRange: the range filter against the stored limits.
isPointInRange(distance, lo, hi) == distance >= lo /\ distance <= hi

\* Variant of checkPacketValidity that looks at the first block only.
checkPacketValidity_FirstBlockOnly(packet) ==
  packet.blocks[0].header = UPPER_BANK

\* checkPacketValidity: every block header is the bank marker.
checkPacketValidity(packet) ==
  \A blk_idx \in Blocks : packet.blocks[blk_idx].header = UPPER_BANK

\* decodePacket, first loop: the even firings take the block azimuths.
BlockAzimuth(packet, fir_idx) ==
  rawAzimuthToDouble(packet.blocks[fir_idx \div FIRINGS_PER_BLOCK].rotation)

\* Variant of the interpolation that gives the last firing the azimuth of
\* its block instead of extrapolating.
InterpolatedAzimuth_LastNotExtrapolated(packet, fir_idx) ==
  LET last == fir_idx = FIRINGS_PER_PACKET - 1
      lfir_idx == fir_idx - 1
      rfir_idx == IF last THEN fir_idx - 1 ELSE fir_idx + 1
      raw_diff == BlockAzimuth(packet, rfir_idx) - BlockAzimuth(packet, lfir_idx)
      azimuth_diff == IF raw_diff < 0 THEN raw_diff + TWO_PI ELSE raw_diff
      mid == BlockAzimuth(packet, fir_idx - 1) + azimuth_diff \div 2
  IN  IF mid > TWO_PI THEN mid - TWO_PI ELSE mid

\* decodePacket, second loop: the azimuth of the odd firing fir_idx.  Every
\* firing it reads (fir_idx-1, lfir_idx, rfir_idx) is an even one.
InterpolatedAzimuth(packet, fir_idx) ==
  LET last == fir_idx = FIRINGS_PER_PACKET - 1
      lfir_idx == IF last THEN fir_idx - 3 ELSE fir_idx - 1
      rfir_idx == IF last THEN fir_idx - 1 ELSE fir_idx + 1
      raw_diff == BlockAzimuth(packet, rfir_idx) - BlockAzimuth(packet, lfir_idx)
      azimuth_diff == IF raw_diff < 0 THEN raw_diff + TWO_PI ELSE raw_diff
      mid == BlockAzimuth(packet, fir_idx - 1) + azimuth_diff \div 2
  IN  IF mid > TWO_PI THEN mid - TWO_PI ELSE mid

FiringAzimuth(packet, fir_idx) ==
  IF fir_idx % 2 = 0 THEN BlockAzimuth(packet, fir_idx)
  ELSE InterpolatedAzimuth(packet, fir_idx)

\* decodePacket, third loop: azimuth, distance and intensity of every scan.
DecodeFiring(packet, fir_idx) ==
  LET blk_idx == fir_idx \div FIRINGS_PER_BLOCK
      blk_fir_idx == fir_idx % FIRINGS_PER_BLOCK
      raw_block == packet.blocks[blk_idx]
      firing_azimuth == FiringAzimuth(packet, fir_idx)
      azimuth_diff ==
        IF fir_idx < FIRINGS_PER_PACKET - 1
        THEN FiringAzimuth(packet, fir_idx + 1) - firing_azimuth
        ELSE firing_azimuth - FiringAzimuth(packet, fir_idx - 1)
      byte_idx(scan_fir_idx) ==
        RAW_SCAN_SIZE * (SCANS_PER_FIRING * blk_fir_idx + scan_fir_idx)
  IN  [firing_azimuth |-> firing_azimuth,
       azimuth |-> [s \in Scans |->
          firing_azimuth + (s * DSR_TOFFSET * azimuth_diff) \div FIRING_TOFFSET],
       distance |-> [s \in Scans |->
          (raw_block.data[byte_idx(s)] + 256 * raw_block.data[byte_idx(s) + 1])
            * DISTANCE_RESOLUTION],
       intensity |-> [s \in Scans |-> raw_block.data[byte_idx(s) + 2]]]

\* decodePacket: the firings array after the call.
decodePacket(packet) == [fir_idx \in Firings |-> DecodeFiring(packet, fir_idx)]

\* The firings array decodePacket leaves for each message of the pool.
DecodedPool == [i \in DOMAIN MessagePool |-> decodePacket(MessagePool[i].packet)]

\* ---------------------------------------------------------- initialization
\* scan_altitude, in degrees, by raw channel: -15, 1, -13, 3, ..., -1, 15.
scan_altitude(scan_idx) == IF scan_idx % 2 = 0 THEN scan_idx - 15 ELSE scan_idx

\* The remapped_scan_idx of initialize (line 65).
remapInit(scan_idx) ==
  IF scan_idx % 2 = 0 THEN scan_idx \div 2 ELSE scan_idx \div 2 + 8

\* The address of the VelodynePuckSweep the constructor allocates (line 31),
\* the only allocation of a sweep in the decoder.
FirstSweepObject == 1

\* The message sweep_data points to after the constructor: 16 empty scans.
NewSweep == [scans |-> [p \in Scans |-> [altitude |-> 0, points |-> << >>]]]

\* loadParameters: the three param() calls in order; each stores the
\* parameter's value, or the default when the parameter is not set.  The
\* third call names "frequency" and stores into max_range.
loadParameters(ps) ==
  LET line36 == [min_range |-> IF ps.min_range = NoParam THEN 500 ELSE ps.min_range[1]]
      line37 == [line36 EXCEPT !.min_range = @] @@
                [max_range |-> IF ps.max_range = NoParam THEN 100000 ELSE ps.max_range[1]]
      line38 == [line37 EXCEPT !.max_range =
                   IF ps.frequency = NoParam THEN 20000 ELSE ps.frequency[1] * 1000]
  IN  line38

\* initialize, lines 63-67: the altitude of each scan, stored remapped.
RECURSIVE FillAltitude(_, _)
FillAltitude(sweep, scan_idx) ==
  IF scan_idx >= SCANS_PER_FIRING THEN sweep
  ELSE FillAltitude(
         [sweep EXCEPT !.scans[remapInit(scan_idx)].altitude = scan_altitude(scan_idx)],
         scan_idx + 1)

\* Variant of clearSweepData whose loop stops one scan early.
clearSweepData_StopsEarly(sweep) ==
  [scans |-> [p \in Scans |->
     IF p < SCANS_PER_FIRING - 1 THEN [sweep.scans[p] EXCEPT !.points = << >>]
     ELSE sweep.scans[p]]]

\* clearSweepData: the points of every scan are dropped, the altitudes stay.
clearSweepData(sweep) ==
  [scans |-> [p \in Scans |-> [sweep.scans[p] EXCEPT !.points = << >>]]]

\* -------------------------------------------------------- packetCallback
\* Variant of the scan that breaks on an azimuth equal to last_azimuth too.
RECURSIVE ScanLoop_LessEqual(_, _, _)
ScanLoop_LessEqual(firings, new_sweep_start, last) ==
  IF firings[new_sweep_start].firing_azimuth <= last
  THEN [new_sweep_start |-> new_sweep_start, last_azimuth |-> last]
  ELSE IF new_sweep_start + 1 < FIRINGS_PER_PACKET
       THEN ScanLoop_LessEqual(firings, new_sweep_start + 1,
                               firings[new_sweep_start].firing_azimuth)
       ELSE [new_sweep_start |-> new_sweep_start + 1,
             last_azimuth |-> firings[new_sweep_start].firing_azimuth]

\* Lines 173-180: the do-while that looks for the first firing whose azimuth
\* is below last_azimuth, moving last_azimuth over the firings it passes.
RECURSIVE ScanLoop(_, _, _)
ScanLoop(firings, new_sweep_start, last) ==
  IF firings[new_sweep_start].firing_azimuth < last
  THEN [new_sweep_start |-> new_sweep_start, last_azimuth |-> last]
  ELSE IF new_sweep_start + 1 < FIRINGS_PER_PACKET
       THEN ScanLoop(firings, new_sweep_start + 1,
                     firings[new_sweep_start].firing_azimuth)
       ELSE [new_sweep_start |-> new_sweep_start + 1,
             last_azimuth |-> firings[new_sweep_start].firing_azimuth]

\* sin and cos of an angle, a plain number, and the product of factors in the
\* order the code multiplies them; the negation of a product.
Sin(angle) == [fn |-> "sin", of |-> angle]
Cos(angle) == [fn |-> "cos", of |-> angle]
Val(number) == [fn |-> "val", of |-> number]
Mul(factors) == [negative |-> FALSE, factors |-> factors]
Neg(product) == [product EXCEPT !.negative = ~@]

\* cos_scan_altitude and sin_scan_altitude: the tables by raw channel.
cos_scan_altitude(scan_idx) == Cos(scan_altitude(scan_idx))
sin_scan_altitude(scan_idx) == Sin(scan_altitude(scan_idx))

\* Variant of the first loop's point with x_coord and y_coord exchanged.
NewPoint_AxesExchanged(firings, fir_idx, scan_idx, start_time, n) ==
  LET x == Mul(<<Val(firings[fir_idx].distance[scan_idx]),
                 cos_scan_altitude(scan_idx),
                 Sin(firings[fir_idx].azimuth[scan_idx])>>)
      y == Mul(<<Val(firings[fir_idx].distance[scan_idx]),
                 cos_scan_altitude(scan_idx),
                 Cos(firings[fir_idx].azimuth[scan_idx])>>)
      z == Mul(<<Val(firings[fir_idx].distance[scan_idx]),
                 sin_scan_altitude(scan_idx)>>)
  IN  [time |-> start_time + FIRING_TOFFSET * fir_idx + DSR_TOFFSET * scan_idx,
       x |-> Neg(x), y |-> y, z |-> z,
       azimuth |-> firings[fir_idx].azimuth[scan_idx],
       distance |-> firings[fir_idx].distance[scan_idx],
       intensity |-> firings[fir_idx].intensity[scan_idx],
       src |-> <<n, fir_idx, scan_idx>>]

\* Lines 204-235: the point msg of firing fir_idx, channel scan_idx, in the
\* first loop.  n is the number of the delivery (history).
NewPoint(firings, fir_idx, scan_idx, start_time, n) ==
  LET x == Mul(<<Val(firings[fir_idx].distance[scan_idx]),
                 cos_scan_altitude(scan_idx),
                 Sin(firings[fir_idx].azimuth[scan_idx])>>)
      y == Mul(<<Val(firings[fir_idx].distance[scan_idx]),
                 cos_scan_altitude(scan_idx),
                 Cos(firings[fir_idx].azimuth[scan_idx])>>)
      z == Mul(<<Val(firings[fir_idx].distance[scan_idx]),
                 sin_scan_altitude(scan_idx)>>)
      x_coord == y
      y_coord == Neg(x)
      z_coord == z
  IN  [time |-> start_time + FIRING_TOFFSET * fir_idx + DSR_TOFFSET * scan_idx,
       x |-> x_coord, y |-> y_coord, z |-> z_coord,
       azimuth |-> firings[fir_idx].azimuth[scan_idx],
       distance |-> firings[fir_idx].distance[scan_idx],
       intensity |-> firings[fir_idx].intensity[scan_idx],
       src |-> <<n, fir_idx, scan_idx>>]

\* Lines 259-290: the same point msg, written a second time in the second
\* loop.
NewPointPost(firings, fir_idx, scan_idx, start_time, n) ==
  LET x == Mul(<<Val(firings[fir_idx].distance[scan_idx]),
                 cos_scan_altitude(scan_idx),
                 Sin(firings[fir_idx].azimuth[scan_idx])>>)
      y == Mul(<<Val(firings[fir_idx].distance[scan_idx]),
                 cos_scan_altitude(scan_idx),
                 Cos(firings[fir_idx].azimuth[scan_idx])>>)
      z == Mul(<<Val(firings[fir_idx].distance[scan_idx]),
                 sin_scan_altitude(scan_idx)>>)
      x_coord == y
      y_coord == Neg(x)
      z_coord == z
  IN  [time |-> start_time + FIRING_TOFFSET * fir_idx + DSR_TOFFSET * scan_idx,
       x |-> x_coord, y |-> y_coord, z |-> z_coord,
       azimuth |-> firings[fir_idx].azimuth[scan_idx],
       distance |-> firings[fir_idx].distance[scan_idx],
       intensity |-> firings[fir_idx].intensity[scan_idx],
       src |-> <<n, fir_idx, scan_idx>>]

\* Variant of the remap that leaves out the offset of the odd channels.
remapPre_NoOffset(scan_idx) == scan_idx \div 2

\* The remapped_scan_idx of the first loop (line 221).
remapPre(scan_idx) ==
  IF scan_idx % 2 = 0 THEN scan_idx \div 2 ELSE scan_idx \div 2 + 8

\* Variant of the second loop's remap with the two halves exchanged.
remapPost_Swapped(scan_idx) ==
  IF scan_idx % 2 = 0 THEN scan_idx \div 2 + 8 ELSE scan_idx \div 2

\* The remapped_scan_idx of the second loop (line 276).
remapPost(scan_idx) ==
  IF scan_idx % 2 = 0 THEN scan_idx \div 2 ELSE scan_idx \div 2 + 8

\* The order in which the two nested for loops visit (fir_idx, scan_idx) for
\* the firings [start_fir_idx, end_fir_idx): fir_idx * 16 + scan_idx ascending.
LoopOrder(start_fir_idx, end_fir_idx) ==
  [j \in 1 .. (end_fir_idx - start_fir_idx) * SCANS_PER_FIRING |->
     start_fir_idx * SCANS_PER_FIRING + j - 1]

\* The iterations of a loop that pass the check of lines 202 / 257; lo and
\* hi are min_range and max_range.
PassRangeCheck(firings, order, lo, hi) ==
  SelectSeq(order, LAMBDA i :
    isPointInRange(firings[i \div SCANS_PER_FIRING].distance[i % SCANS_PER_FIRING],
                   lo, hi))

\* scans[p] after new_points have been pushed to its back, in order.
PushBack(scan_msg, new_points) ==
  [scan_msg EXCEPT !.points = @ \o new_points]

\* The point msgs the iterations mine of the first loop pack, in order.
NewPoints(firings, mine, start_time, n) ==
  [j \in 1 .. Len(mine) |->
     NewPoint(firings, mine[j] \div SCANS_PER_FIRING, mine[j] % SCANS_PER_FIRING,
              start_time, n)]

\* The point msgs the iterations mine of the second loop pack, in order.
NewPointsPost(firings, mine, start_time, n) ==
  [j \in 1 .. Len(mine) |->
     NewPointPost(firings, mine[j] \div SCANS_PER_FIRING, mine[j] % SCANS_PER_FIRING,
                  start_time, n)]

\* Lines 220-235: every iteration in passed pushes its point to the back of
\* scans[remapped_scan_idx].
PreWrapPush(sweep, firings, passed, start_time, n) ==
  [scans |-> [p \in Scans |->
     PushBack(sweep.scans[p],
              NewPoints(firings,
                        SelectSeq(passed, LAMBDA i : remapPre(i % SCANS_PER_FIRING) = p),
                        start_time, n))]]

\* Lines 199-237: the loop over the firings [start_fir_idx, end_fir_idx) and
\* their scans.
PreWrapLoop(sweep, firings, start_fir_idx, end_fir_idx, start_time, lo, hi, n) ==
  PreWrapPush(sweep, firings,
              PassRangeCheck(firings, LoopOrder(start_fir_idx, end_fir_idx), lo, hi),
              start_time, n)

\* Lines 275-290: the same pushes, written a second time after the publish.
PostWrapPush(sweep, firings, passed, start_time, n) ==
  [scans |-> [p \in Scans |->
     PushBack(sweep.scans[p],
              NewPointsPost(firings,
                            SelectSeq(passed, LAMBDA i : remapPost(i % SCANS_PER_FIRING) = p),
                            start_time, n))]]

\* Lines 254-292: the second loop.
PostWrapLoop(sweep, firings, start_fir_idx, end_fir_idx, start_time, lo, hi, n) ==
  PostWrapPush(sweep, firings,
               PassRangeCheck(firings, LoopOrder(start_fir_idx, end_fir_idx), lo, hi),
               start_time, n)

\* Variant of the segment choice that keeps the partial first sweep.
FirstSegment_KeepPartial(first, new_sweep_start) ==
  IF first THEN [start_fir_idx |-> 0, end_fir_idx |-> FIRINGS_PER_PACKET]
  ELSE [start_fir_idx |-> 0, end_fir_idx |-> new_sweep_start]

\* Lines 185-197: the firings [start, end) the first loop takes.  The first
\* sweep takes the firings from the wraparound on, every other call the
\* firings before it.
FirstSegment(first, new_sweep_start) ==
  IF first THEN [start_fir_idx |-> new_sweep_start, end_fir_idx |-> FIRINGS_PER_PACKET]
  ELSE [start_fir_idx |-> 0, end_fir_idx |-> new_sweep_start]

\* Variant of line 249 that takes the packet's first firing.
AzimuthAfterPublish_FirstFiring(firings) == firings[0].firing_azimuth

\* Line 249: last_azimuth once a sweep has been published.
AzimuthAfterPublish(firings) == firings[FIRINGS_PER_PACKET - 1].firing_azimuth

\* Variant of what follows the first loop without the reset of line 248.
AfterFirstLoop_NoReset(st, firings, seg, scanned_azimuth, sweep1, n) ==
  LET advanced == st.packet_start_time
                    + FIRING_TOFFSET * (seg.end_fir_idx - seg.start_fir_idx)
  IN  IF seg.end_fir_idx = FIRINGS_PER_PACKET
      THEN [st EXCEPT !.is_first_sweep = FALSE,
                      !.last_azimuth = scanned_azimuth,
                      !.sweep_data = sweep1,
                      !.packet_start_time = advanced]
      ELSE [st EXCEPT !.is_first_sweep = FALSE,
                      !.published = Append(@, sweep1),
                      !.handed = Append(@, st.sweep_data_ptr),
                      !.last_azimuth = AzimuthAfterPublish(firings),
                      !.sweep_data =
                         PostWrapLoop(clearSweepData(sweep1), firings,
                                      seg.end_fir_idx, FIRINGS_PER_PACKET, advanced,
                                      st.min_range, st.max_range, n),
                      !.packet_start_time =
                         advanced + FIRING_TOFFSET * (FIRINGS_PER_PACKET - seg.end_fir_idx)]

\* Lines 239-295: what follows the first loop over the firings seg.  sweep1
\* is the sweep buffer the first loop leaves.  When the loop ended before the
\* last firing, the sweep is published and cleared, and the rest of the
\* packet starts the next one.
AfterFirstLoop(st, firings, seg, scanned_azimuth, sweep1, n) ==
  IF seg.end_fir_idx = FIRINGS_PER_PACKET
  THEN [st EXCEPT !.is_first_sweep = FALSE,
                  !.last_azimuth = scanned_azimuth,
                  !.sweep_data = sweep1,
                  !.packet_start_time =
                     @ + FIRING_TOFFSET * (seg.end_fir_idx - seg.start_fir_idx)]
  ELSE [st EXCEPT !.is_first_sweep = FALSE,
                  !.published = Append(@, sweep1),
                  !.handed = Append(@, st.sweep_data_ptr),
                  !.last_azimuth = AzimuthAfterPublish(firings),
                  !.sweep_data =
                     PostWrapLoop(clearSweepData(sweep1), firings, seg.end_fir_idx,
                                  FIRINGS_PER_PACKET, 0, st.min_range, st.max_range, n),
                  !.packet_start_time =
                     0 + FIRING_TOFFSET * (FIRINGS_PER_PACKET - seg.end_fir_idx)]

\* Lines 199-237, then the rest.
FirstLoop(st, firings, seg, scanned_azimuth, n) ==
  AfterFirstLoop(st, firings, seg, scanned_azimuth,
    PreWrapLoop(st.sweep_data, firings, seg.start_fir_idx, seg.end_fir_idx,
                st.packet_start_time, st.min_range, st.max_range, n),
    n)

\* History: a call that ends the first sweep or publishes a sweep adds the
\* wraparound its scan found to cuts.
WithCut(after, st, scan, n) ==
  [after EXCEPT !.cuts =
     IF st.is_first_sweep \/ Len(after.published) > Len(st.published)
     THEN Append(@, <<n, scan.new_sweep_start>>) ELSE @]

\* Variant without the early return of lines 187-189.
AfterScan_NoEarlyReturn(st, firings, scan, n) ==
  WithCut(FirstLoop(st, firings,
                    FirstSegment(st.is_first_sweep, scan.new_sweep_start),
                    scan.last_azimuth, n),
          st, scan, n)

\* Lines 185-197: the early return of the first sweep, or the segment.
AfterScan(st, firings, scan, n) ==
  IF st.is_first_sweep /\ scan.new_sweep_start = FIRINGS_PER_PACKET
  THEN [st EXCEPT !.last_azimuth = scan.last_azimuth]
  ELSE WithCut(FirstLoop(st, firings,
                         FirstSegment(st.is_first_sweep, scan.new_sweep_start),
                         scan.last_azimuth, n),
               st, scan, n)

\* Lines 172-297: the decoder state a decoded packet leaves.  st is the state
\* before the call, n the number of the delivery.
Convert(st, firings, n) ==
  AfterScan(st, firings, ScanLoop(firings, 0, st.last_azimuth), n)

\* The decoder's fields as one record.
DecoderState ==
  [min_range |-> min_range, max_range |-> max_range,
   is_first_sweep |-> is_first_sweep, last_azimuth |-> last_azimuth,
   packet_start_time |-> packet_start_time,
   sweep_data_ptr |-> sweep_data_ptr, sweep_data |-> sweep_data,
   published |-> published, handed |-> handed, cuts |-> cuts]

\* ---------------------------------------------------------------- actions
\* The constructor has run: nothing loaded, nothing subscribed.  The range
\* limits are not set by the constructor and not read before initialize.
Init ==
  /\ params \in ParamSets
  /\ phase = "constructed"
  /\ min_range = 0
  /\ max_range = 0
  /\ is_first_sweep = TRUE
  /\ last_azimuth = 0
  /\ packet_start_time = 0
  /\ sweep_data_ptr = FirstSweepObject
  /\ sweep_data = NewSweep
  /\ published = << >>
  /\ handed = << >>
  /\ delivered = << >>
  /\ decoded = << >>
  /\ cuts = << >>

\* initialize(): loadParameters, createRosIO (the subscription), altitudes.
initialize ==
  /\ phase = "constructed"
  /\ phase' = "ready"
  /\ min_range' = loadParameters(params).min_range
  /\ max_range' = loadParameters(params).max_range
  /\ sweep_data' = FillAltitude(sweep_data, 0)
  /\ UNCHANGED <<params, is_first_sweep, last_azimuth, packet_start_time,
                 sweep_data_ptr, published, handed, delivered, decoded, cuts>>

\* The decoder's fields take the values of the record after.
Install(after) ==
  /\ is_first_sweep' = after.is_first_sweep
  /\ last_azimuth' = after.last_azimuth
  /\ packet_start_time' = after.packet_start_time
  /\ sweep_data' = after.sweep_data
  /\ published' = after.published
  /\ handed' = after.handed
  /\ cuts' = after.cuts

\* packetCallback on message i of the pool.
packetCallback(i) ==
  /\ phase = "ready"
  /\ Len(delivered) < MaxPackets
  /\ delivered' = Append(delivered, i)
  /\ IF ~checkPacketValidity(MessagePool[i].packet)
     THEN UNCHANGED <<is_first_sweep, last_azimuth, packet_start_time,
                      sweep_data, published, handed, decoded, cuts>>
     ELSE /\ Install(Convert(DecoderState, DecodedPool[i], Len(delivered) + 1))
          /\ decoded' = Append(decoded, Len(delivered) + 1)
  /\ UNCHANGED <<params, phase, min_range, max_range, sweep_data_ptr>>

Next == initialize \/ \E i \in DOMAIN MessagePool : packetCallback(i)

Spec == Init /\ [][Next]_vars

\* ------------------------------------------------ vocabulary of the claims
Min(S) == CHOOSE x \in S : \A y \in S : x <= y

\* The physical (vertical order) index of each raw channel 0..15, as a table.
PhysicalTable == <<0, 8, 1, 9, 2, 10, 3, 11, 4, 12, 5, 13, 6, 14, 7, 15>>
PhysicalIndex(c) == PhysicalTable[c + 1]
\* The raw channel stored at physical index p.
RawChannel(p) == IF p < 8 THEN 2 * p ELSE 2 * (p - 8) + 1

\* The decoded firings of delivery m, and the azimuth of its firing f.
FiringsOf(m) == DecodedPool[delivered[m]]
Az(m, f) == FiringsOf(m)[f].firing_azimuth

\* The measurement of delivery m, firing f, channel c passes the range filter
\* of the decoder.
AcceptedIn(firings, f, c) ==
  /\ firings[f].distance[c] >= min_range
  /\ firings[f].distance[c] <= max_range
Accepted(m, f, c) == AcceptedIn(FiringsOf(m), f, c)

\* The first wraparound the scan of a packet finds: the least firing whose
\* azimuth is below that of the firing before it (for firing 0: below last),
\* or 24 when there is none.
Wraparound(firings, last) ==
  LET down == {f \in Firings :
                 firings[f].firing_azimuth <
                   (IF f = 0 THEN last ELSE firings[f - 1].firing_azimuth)}
  IN  IF down = {} THEN FIRINGS_PER_PACKET ELSE Min(down)

\* The measurements of firings [a, b) of delivery m, decoded as firings, that
\* belong in physical channel p, in firing order.
MeasurementsIn(firings, m, a, b, p) ==
  SelectSeq([j \in 1 .. b - a |-> <<m, a + j - 1, RawChannel(p)>>],
            LAMBDA t : AcceptedIn(firings, t[2], t[3]))
Measurements(m, a, b, p) == MeasurementsIn(FiringsOf(m), m, a, b, p)

\* The measurements the points of a scan came from, in stored order.
Sources(scan_msg) == [j \in 1 .. Len(scan_msg.points) |-> scan_msg.points[j].src]

IsEmpty(sweep) == \A p \in Scans : sweep.scans[p].points = << >>

\* Every emitted sweep in order, then the open sweep buffer.
AllSweeps == published \o <<sweep_data>>

\* The places (sweep, physical channel, position) that hold a point.
Places ==
  UNION {{<<i, p, j>> : j \in 1 .. Len(AllSweeps[i].scans[p].points)} :
           i \in 1 .. Len(AllSweeps), p \in Scans}
PointAt(pl) == AllSweeps[pl[1]].scans[pl[2]].points[pl[3]]

\* A step of packetCallback, the message it is called with, and whether the
\* message passes the header check.
IsCall == Len(delivered') = Len(delivered) + 1
CallMsg == MessagePool[delivered'[Len(delivered')]]
CallFirings == DecodedPool[delivered'[Len(delivered')]]
CallNumber == Len(delivered) + 1
CallMeasurements(a, b, p) == MeasurementsIn(CallFirings, CallNumber, a, b, p)
HeadersValid(msg) == \A b \in Blocks : msg.packet.blocks[b].header = UPPER_BANK

\* ----------------------------------------------------------------- claims
\* C1: once the decoder has left AwaitingFirstRevolution at firing k0 of
\* delivery n0, the points held by the emitted sweeps and the open sweep
\* buffer are exactly the accepted measurements of firings k0..23 of
\* delivery n0 and of all firings of every later decoded packet, each held
\* once, in the physical channel of its raw channel, with its distance.
C1_Expected ==
  {t \in {n \in 1 .. Len(delivered) : \E d \in DOMAIN decoded : decoded[d] = n}
           \X Firings \X Scans :
     /\ t[1] >= cuts[1][1]
     /\ t[1] = cuts[1][1] => t[2] >= cuts[1][2]
     /\ Accepted(t[1], t[2], t[3])}

\* The point pt holds the distance of the measurement it came from.
HoldsItsDistance(pt) ==
  pt.distance = FiringsOf(pt.src[1])[pt.src[2]].distance[pt.src[3]]

\* The points at places are the measurements expected, each held once.
C1_ExactlyOnce(places, expected) ==
  /\ {<<PointAt(pl).src, pl[2]>> : pl \in places}
       = {<<t, PhysicalIndex(t[3])>> : t \in expected}
  /\ Cardinality(places) = Cardinality(expected)
  /\ \A pl \in places : HoldsItsDistance(PointAt(pl))

\* C1: no loss, no duplication, from the transition firing on (see above).
C1_NoLossNoDuplication ==
  cuts # << >> => C1_ExactlyOnce(Places, C1_Expected)

\* C1 witness: two sweeps were emitted and the open buffer holds points.
C1_Witness ==
  /\ Len(published) >= 2
  /\ ~IsEmpty(published[1]) /\ ~IsEmpty(published[2]) /\ ~IsEmpty(sweep_data)
  /\ cuts[1][2] > 0

\* C2: a valid packet decoded while Accumulating whose first wraparound is at
\* firing k, 0 < k < 24, emits exactly one sweep, which is the buffer of
\* before followed by the accepted measurements of firings [0,k); the buffer
\* afterwards holds exactly the accepted measurements of firings [k,24), and
\* packet_start_time is FIRING_TOFFSET * (24 - k).
C2_StepAt(k) ==
      (k > 0 /\ k < FIRINGS_PER_PACKET)
      => /\ Len(published') = Len(published) + 1
         /\ SubSeq(published', 1, Len(published)) = published
         /\ \A p \in Scans :
              /\ Sources(published'[Len(published')].scans[p])
                   = Sources(sweep_data.scans[p]) \o CallMeasurements(0, k, p)
              /\ Sources(sweep_data'.scans[p])
                   = CallMeasurements(k, FIRINGS_PER_PACKET, p)
         /\ packet_start_time' = FIRING_TOFFSET * (FIRINGS_PER_PACKET - k)

C2_Step ==
  (IsCall /\ HeadersValid(CallMsg) /\ ~is_first_sweep)
  => C2_StepAt(Wraparound(CallFirings, last_azimuth))

\* C2: every step of packetCallback that finds the first wraparound of a
\* valid packet at a firing k, 0 < k < 24, while Accumulating emits exactly
\* one sweep (the old buffer plus firings [0,k)) and leaves firings [k,24) in
\* the buffer with packet_start_time = FIRING_TOFFSET * (24 - k).
C2_SplitPacket == [][C2_Step]_vars

\* C2 witness: the last call closed a sweep at a firing k, 0 < k < 24, with
\* points on both sides of k and points accumulated before the call.
C2_Witness ==
  /\ Len(cuts) >= 2
  /\ cuts[Len(cuts)][1] = Len(delivered)
  /\ cuts[Len(cuts)][2] > 0
  /\ cuts[Len(cuts) - 1][1] < Len(delivered)
  /\ \E p \in Scans :
       /\ \E j \in DOMAIN published[Len(published)].scans[p].points :
            published[Len(published)].scans[p].points[j].src[1] = Len(delivered)
       /\ \E j \in DOMAIN published[Len(published)].scans[p].points :
            published[Len(published)].scans[p].points[j].src[1] < Len(delivered)
  /\ ~IsEmpty(sweep_data)

\* C3: a valid packet decoded in AwaitingFirstRevolution with a wraparound at
\* firing k < 24 moves the decoder to Accumulating, emits nothing, and leaves
\* in the buffer exactly the accepted measurements of firings k..23.
C3_StepAt(k) ==
      k < FIRINGS_PER_PACKET
      => /\ ~is_first_sweep'
         /\ published' = published
         /\ \A p \in Scans :
              Sources(sweep_data'.scans[p])
                = CallMeasurements(k, FIRINGS_PER_PACKET, p)

C3_Step ==
  (IsCall /\ HeadersValid(CallMsg) /\ is_first_sweep)
  => C3_StepAt(Wraparound(CallFirings, last_azimuth))

\* C3: every step of packetCallback that finds a wraparound at a firing
\* k < 24 in AwaitingFirstRevolution moves to Accumulating, emits nothing and
\* leaves exactly firings [k,24) in the buffer.
C3_FirstTransition == [][C3_Step]_vars

\* C3 witness: the last call was the transition, at a firing k > 0 that has
\* accepted measurements before it, and the buffer holds points.
C3_Witness ==
  /\ Len(cuts) = 1
  /\ cuts[1][1] = Len(delivered)
  /\ cuts[1][2] > 0
  /\ \E p \in Scans : Measurements(Len(delivered), 0, cuts[1][2], p) # << >>
  /\ ~IsEmpty(sweep_data)
  /\ published = << >>

\* C4: a valid packet decoded in AwaitingFirstRevolution without a wraparound
\* appends nothing, emits nothing and leaves the decoder in
\* AwaitingFirstRevolution; and whenever is_first_sweep is true no sweep has
\* been emitted and the buffer is empty.
C4_Step ==
  (IsCall /\ HeadersValid(CallMsg) /\ is_first_sweep
     /\ Wraparound(CallFirings, last_azimuth) = FIRINGS_PER_PACKET)
  => /\ is_first_sweep'
     /\ sweep_data' = sweep_data
     /\ published' = published

\* C4: while is_first_sweep is true nothing has been emitted and the buffer
\* is empty, and a valid packet without a wraparound keeps it so.
C4_NoPartialFirstSweep ==
  /\ [](is_first_sweep => (published = << >> /\ IsEmpty(sweep_data)))
  /\ [][C4_Step]_vars

\* C4 witness: two valid packets with accepted measurements were decoded and
\* the decoder is still in AwaitingFirstRevolution.
C4_Witness ==
  /\ is_first_sweep
  /\ Len(decoded) >= 2
  /\ \A d \in DOMAIN decoded :
       \E p \in Scans : Measurements(decoded[d], 0, FIRINGS_PER_PACKET, p) # << >>

\* The decoded deliveries, and the one decoded before delivery m (0: none).
DecodedSet == {decoded[d] : d \in DOMAIN decoded}
PrevDecoded(m) ==
  LET before == {x \in DecodedSet : x < m}
  IN  IF before = {} THEN 0 ELSE CHOOSE x \in before : \A y \in before : y <= x

\* The accepted measurements, for physical channel p, of every decoded
\* delivery after delivery a and before delivery b, in order.
RECURSIVE Between(_, _, _)
Between(a, b, p) ==
  IF \A x \in DecodedSet : x <= a \/ x >= b THEN << >>
  ELSE LET m == Min({x \in DecodedSet : x > a /\ x < b})
       IN  Measurements(m, 0, FIRINGS_PER_PACKET, p) \o Between(m, b, p)

\* C5: the valid packet that follows the transition packet, with firing
\* azimuths non-decreasing and all at or above the azimuth of the transition
\* packet's firing 23, is appended in full with no emission (first conjunct);
\* the first sweep is emitted only by a packet that crosses 0 degrees at some
\* firing j, and holds the transition packet's firings [k,24), all firings of
\* the packets in between and firings [0,j) of the crossing packet (second).
C5_FollowingStep ==
  (/\ IsCall /\ HeadersValid(CallMsg) /\ ~is_first_sweep
   /\ Len(cuts) = 1 /\ PrevDecoded(CallNumber) = cuts[1][1]
   /\ \A f \in Firings :
        /\ CallFirings[f].firing_azimuth >= Az(cuts[1][1], FIRINGS_PER_PACKET - 1)
        /\ f > 0 => CallFirings[f].firing_azimuth >= CallFirings[f - 1].firing_azimuth)
  => /\ published' = published
     /\ \A p \in Scans :
          Sources(sweep_data'.scans[p])
            = Sources(sweep_data.scans[p]) \o CallMeasurements(0, FIRINGS_PER_PACKET, p)

C5_FirstEmissionAt(j) ==
  /\ j < FIRINGS_PER_PACKET
  /\ \A p \in Scans :
       Sources(published'[1].scans[p])
         = Measurements(cuts[1][1], cuts[1][2], FIRINGS_PER_PACKET, p)
             \o Between(cuts[1][1], CallNumber, p)
             \o CallMeasurements(0, j, p)

C5_FirstEmissionStep ==
  (IsCall /\ published = << >> /\ published' # << >>)
  => C5_FirstEmissionAt(
       Wraparound(CallFirings, Az(PrevDecoded(CallNumber), FIRINGS_PER_PACKET - 1)))

\* C5: every step satisfies both halves: the packet after the transition
\* packet is appended in full without emission, and the first sweep is
\* emitted only at a packet that crosses 0 degrees, complete.
C5_FirstSweepComplete == [][C5_FollowingStep /\ C5_FirstEmissionStep]_vars

\* C6 as stated: after valid packets whose block azimuths, read in order
\* across the whole sequence, never decrease, no sweep has been emitted and
\* the decoder is in AwaitingFirstRevolution.
BlockAzimuthsMonotone ==
  /\ \A n \in DOMAIN delivered :
       /\ HeadersValid(MessagePool[delivered[n]])
       /\ MessagePool[delivered[n]].len = PACKET_SIZE
       /\ \A b \in Blocks :
            LET blocks == MessagePool[delivered[n]].packet.blocks
            IN  IF b > 0 THEN blocks[b - 1].rotation <= blocks[b].rotation
                ELSE n > 1 =>
                       MessagePool[delivered[n - 1]].packet
                          .blocks[BLOCKS_PER_PACKET - 1].rotation <= blocks[b].rotation

C6_BlockMonotoneNeverEmits ==
  BlockAzimuthsMonotone => (published = << >> /\ is_first_sweep)

\* C6 amended: after valid packets whose 24 firing azimuths per packet, read
\* in order across the whole sequence, never decrease, no sweep has been
\* emitted and the decoder is in AwaitingFirstRevolution.
FiringAzimuthsMonotone ==
  \A n \in DOMAIN delivered :
    /\ HeadersValid(MessagePool[delivered[n]])
    /\ MessagePool[delivered[n]].len = PACKET_SIZE
    /\ \A f \in Firings :
         IF f > 0 THEN Az(n, f - 1) <= Az(n, f)
         ELSE n > 1 => Az(n - 1, FIRINGS_PER_PACKET - 1) <= Az(n, f)

C6_FiringMonotoneNeverEmits ==
  FiringAzimuthsMonotone => (published = << >> /\ is_first_sweep)

\* C6 witness: two packets were decoded, the second with equal azimuths on
\* consecutive firings, and the firing azimuths never decreased.
C6_Witness ==
  /\ Len(decoded) >= 2
  /\ FiringAzimuthsMonotone
  /\ \E f \in Firings : f > 0 /\ Az(2, f - 1) = Az(2, f)

\* C7: in every emitted sweep the azimuths of the firings accumulated into
\* it, in accumulation order, never decrease.  Sweep i holds the firings from
\* cuts[i] up to, not including, cuts[i+1].
InSweep(i, m, f) ==
  /\ m \in DecodedSet
  /\ m > cuts[i][1] \/ (m = cuts[i][1] /\ f >= cuts[i][2])
  /\ m < cuts[i + 1][1] \/ (m = cuts[i + 1][1] /\ f < cuts[i + 1][2])

C7_SweepAzimuthsMonotone ==
  \A i \in DOMAIN published : \A m \in DecodedSet : \A f \in Firings :
    InSweep(i, m, f) =>
      /\ (f > 0 /\ InSweep(i, m, f - 1)) => Az(m, f - 1) <= Az(m, f)
      /\ (f = 0 /\ PrevDecoded(m) > 0
            /\ InSweep(i, PrevDecoded(m), FIRINGS_PER_PACKET - 1))
           => Az(PrevDecoded(m), FIRINGS_PER_PACKET - 1) <= Az(m, f)

\* C8: no point of an emitted sweep has a distance below the configured
\* min_range or above the configured max_range (the values of the options,
\* 0.5 m and 100 m where an option is not set).
ConfiguredMin == IF params.min_range = NoParam THEN 500 ELSE params.min_range[1]
ConfiguredMax == IF params.max_range = NoParam THEN 100000 ELSE params.max_range[1]

C8_RangeFilter ==
  \A i \in DOMAIN published : \A p \in Scans :
    \A j \in DOMAIN published[i].scans[p].points :
      /\ published[i].scans[p].points[j].distance >= ConfiguredMin
      /\ published[i].scans[p].points[j].distance <= ConfiguredMax

\* C9: a call with a message one of whose block headers is not the bank
\* marker emits nothing and leaves is_first_sweep, last_azimuth,
\* packet_start_time and the sweep buffer as they were.
C9_Step ==
  (IsCall /\ ~HeadersValid(CallMsg))
  => UNCHANGED <<is_first_sweep, last_azimuth, packet_start_time, sweep_data,
                 published>>

\* C9: every step of packetCallback on a packet with a bad block header
\* leaves the decoder state and the emitted sweeps unchanged.
C9_InvalidPacketDropped == [][C9_Step]_vars

\* C9 witness: a packet with a bad header, whose other fields would have
\* closed a sweep, was delivered between two decoded packets while the
\* decoder was Accumulating with points in the buffer.
C9_Witness ==
  /\ Len(delivered) = 3
  /\ decoded = <<1, 3>>
  /\ ~HeadersValid(MessagePool[delivered[2]])
  /\ MessagePool[delivered[2]].len = PACKET_SIZE
  /\ cuts # << >> /\ cuts[1][1] = 1
  /\ ~IsEmpty(sweep_data)

\* C10: a call with a buffer whose length is not the packet size changes no
\* decoder state and emits nothing.
C10_Step ==
  (IsCall /\ CallMsg.len # PACKET_SIZE)
  => UNCHANGED <<is_first_sweep, last_azimuth, packet_start_time, sweep_data,
                 published>>

\* C10: every step of packetCallback on a buffer of the wrong length leaves
\* the decoder state and the emitted sweeps unchanged.
C10_WrongLengthRejected == [][C10_Step]_vars

\* The sweep objects that exist, by address, with their present contents.
\* The decoder allocates one and never replaces it.
Heap == [a \in {sweep_data_ptr} |-> sweep_data]

\* C11: every sweep handed to the output collaborator is an object other
\* than the decoder's open sweep buffer, and its contents are still the
\* contents it was handed over with.
C11_EmittedSweepNotAliased ==
  \A i \in DOMAIN handed :
    /\ handed[i] # sweep_data_ptr
    /\ Heap[handed[i]] = published[i]

\* The decoder's fields once the constructor and initialize() have run with
\* the parameter server contents ps.
Initialized(ps) ==
  [min_range |-> loadParameters(ps).min_range,
   max_range |-> loadParameters(ps).max_range,
   is_first_sweep |-> TRUE, last_azimuth |-> 0, packet_start_time |-> 0,
   sweep_data_ptr |-> FirstSweepObject, sweep_data |-> FillAltitude(NewSweep, 0),
   published |-> << >>, handed |-> << >>, cuts |-> << >>]

\* packetCallback on message i of the pool as delivery n, on the fields st.
Deliver(st, i, n) ==
  IF checkPacketValidity(MessagePool[i].packet)
  THEN Convert(st, DecodedPool[i], n) ELSE st

\* The decoder's fields after the deliveries n, n+1, ... of msgs.
RECURSIVE RunDecoder(_, _, _)
RunDecoder(st, msgs, n) ==
  IF n > Len(msgs) THEN st
  ELSE RunDecoder(Deliver(st, msgs[n], n), msgs, n + 1)

\* Values of the frequency option: not set, 10 and 50 rotations per second.
FrequencyValues == {NoParam, <<10>>, <<50>>}

AllDefaults ==
  params.min_range = NoParam /\ params.max_range = NoParam
    /\ params.frequency = NoParam

\* C12: a decoder configured with the same min_range and max_range and any
\* other value of frequency emits, for the packets delivered so far, the
\* same sweeps as this one; and with no option set the accepted distances
\* are those from 0.5 m to 100 m.
C12_FrequencyIgnored ==
  phase = "ready" =>
    /\ \A f \in FrequencyValues :
         RunDecoder(Initialized([params EXCEPT !.frequency = f]), delivered, 1)
           .published = published
    /\ AllDefaults => (min_range = 500 /\ max_range = 100000)

\* The table remap maps the raw channels one-to-one onto the physical
\* indices 0..15.
IsBijection(remap) ==
  /\ \A c \in Scans : remap[c] \in Scans
  /\ \A c1, c2 \in Scans : remap[c1] = remap[c2] => c1 = c2
  /\ \A p \in Scans : \E c \in Scans : remap[c] = p

\* Every point of the sweep came from the raw channel whose altitude its
\* scan holds (the altitudes of the 16 raw channels are all different).
StoredFromOwnChannel(sweep) ==
  \A p \in Scans : \A j \in DOMAIN sweep.scans[p].points :
    sweep.scans[p].altitude = scan_altitude(sweep.scans[p].points[j].src[3])

\* C13: the remap of initialize and the remaps of the two accumulation loops
\* are one mapping, even c to c/2 and odd c to c/2+8, a bijection on 0..15;
\* and every point of every emitted sweep and of the open buffer lies in the
\* scan that holds the altitude of the point's raw channel.
C13_RemapBijection ==
  /\ IsBijection([c \in Scans |-> remapInit(c)])
  /\ \A c \in Scans :
       /\ remapInit(c) = PhysicalIndex(c)
       /\ remapPre(c) = remapInit(c)
       /\ remapPost(c) = remapInit(c)
  /\ StoredFromOwnChannel(sweep_data)
  /\ \A i \in DOMAIN published : StoredFromOwnChannel(published[i])

\* C13 witness: the last call closed a sweep; its first loop stored points of
\* odd and of even raw channels in the emitted sweep, and its second loop
\* stored points of odd and of even raw channels in the open buffer.
HoldsFrom(sweep, n, parity) ==
  \E p \in Scans : \E j \in DOMAIN sweep.scans[p].points :
    /\ sweep.scans[p].points[j].src[1] = n
    /\ sweep.scans[p].points[j].src[3] % 2 = parity

C13_Witness ==
  /\ published # << >>
  /\ cuts[Len(cuts)][1] = Len(delivered)
  /\ \A parity \in {0, 1} :
       /\ HoldsFrom(published[Len(published)], Len(delivered), parity)
       /\ HoldsFrom(sweep_data, Len(delivered), parity)

\* The point pt has the coordinates, azimuth, distance and intensity of
\* channel c of the decoded firing, for a channel of the given altitude.
ProjectionOf(pt, firing, c, altitude) ==
  /\ pt.x = Mul(<<Val(firing.distance[c]), Cos(altitude), Cos(firing.azimuth[c])>>)
  /\ pt.y = Neg(Mul(<<Val(firing.distance[c]), Cos(altitude), Sin(firing.azimuth[c])>>))
  /\ pt.z = Mul(<<Val(firing.distance[c]), Sin(altitude)>>)
  /\ pt.azimuth = firing.azimuth[c]
  /\ pt.distance = firing.distance[c]
  /\ pt.intensity = firing.intensity[c]

\* Every point of the sweep is the projection of the firing and raw channel
\* it came from, with the altitude its scan holds.
ProjectedSweep(sweep) ==
  \A p \in Scans : \A j \in DOMAIN sweep.scans[p].points :
    ProjectionOf(sweep.scans[p].points[j],
                 FiringsOf(sweep.scans[p].points[j].src[1])
                   [sweep.scans[p].points[j].src[2]],
                 sweep.scans[p].points[j].src[3],
                 sweep.scans[p].altitude)

\* C14: every stored point, in every emitted sweep and in the open buffer,
\* has x = distance*cos(altitude)*cos(azimuth),
\* y = -distance*cos(altitude)*sin(azimuth), z = distance*sin(altitude) and
\* the azimuth, distance and intensity decoded for its firing and channel.
C14_Projection ==
  /\ ProjectedSweep(sweep_data)
  /\ \A i \in DOMAIN published : ProjectedSweep(published[i])

\* C14 witness: the last call closed a sweep, and both the emitted sweep and
\* the open buffer hold a point of this call from a channel above 0 whose
\* azimuth differs from its firing's azimuth.
RefinedPointFrom(sweep, n) ==
  \E p \in Scans : \E j \in DOMAIN sweep.scans[p].points :
    /\ sweep.scans[p].points[j].src[1] = n
    /\ sweep.scans[p].points[j].src[3] > 0
    /\ sweep.scans[p].points[j].azimuth
         # FiringsOf(n)[sweep.scans[p].points[j].src[2]].firing_azimuth

C14_Witness ==
  /\ published # << >>
  /\ cuts[Len(cuts)][1] = Len(delivered)
  /\ RefinedPointFrom(published[Len(published)], Len(delivered))
  /\ RefinedPointFrom(sweep_data, Len(delivered))

\* The number of firings accumulated into the sweep that began at firing
\* cut[2] of delivery cut[1] before firing f of delivery m.
FiringsBefore(cut, m, f) ==
  IF m = cut[1] THEN f - cut[2]
  ELSE (FIRINGS_PER_PACKET - cut[2])
       + FIRINGS_PER_PACKET * Cardinality({x \in DecodedSet : x > cut[1] /\ x < m})
       + f

\* Every point of the sweep that began at cut has as time its offset from
\* the first firing of the sweep.
TimedFromStart(sweep, cut) ==
  \A p \in Scans : \A j \in DOMAIN sweep.scans[p].points :
    sweep.scans[p].points[j].time
      = FIRING_TOFFSET * FiringsBefore(cut, sweep.scans[p].points[j].src[1],
                                       sweep.scans[p].points[j].src[2])
        + DSR_TOFFSET * sweep.scans[p].points[j].src[3]

\* C15: the time of every point of every sweep, emitted or open, is
\* FIRING_TOFFSET times the number of firings accumulated into that sweep
\* before the point's firing, plus DSR_TOFFSET times its raw channel.
C15_TimeFromSweepStart ==
  \A i \in DOMAIN cuts :
    TimedFromStart(IF i <= Len(published) THEN published[i] ELSE sweep_data,
                   cuts[i])

\* The forward angular step, modulo 2*pi, between firing f of firings and the
\* adjacent firing: the next one, or for the last firing the one before.
ForwardStep(firings, f) ==
  (IF f < FIRINGS_PER_PACKET - 1
   THEN firings[f + 1].firing_azimuth - firings[f].firing_azimuth
   ELSE firings[f].firing_azimuth - firings[f - 1].firing_azimuth) % TWO_PI

\* The azimuth of every channel c of every firing is the firing's azimuth
\* plus c * DSR_TOFFSET / FIRING_TOFFSET of the forward step.
ConstantVelocity(firings) ==
  \A f \in Firings : \A c \in Scans :
    firings[f].azimuth[c]
      = firings[f].firing_azimuth
        + (c * DSR_TOFFSET * ForwardStep(firings, f)) \div FIRING_TOFFSET

\* The deliveries of full-length packets with valid headers.
ValidDeliveries ==
  {m \in DOMAIN delivered :
     /\ HeadersValid(MessagePool[delivered[m]])
     /\ MessagePool[delivered[m]].len = PACKET_SIZE}

\* C16: in every valid packet decoded, the azimuth of channel c of firing f
\* is the firing azimuth plus the fraction c * DSR_TOFFSET / FIRING_TOFFSET
\* of the forward step, modulo 2*pi, to the adjacent firing.
C16_ChannelAzimuthOnArc ==
  \A m \in ValidDeliveries : ConstantVelocity(FiringsOf(m))

\* The block azimuths b[0..11] of delivery m.
BlockAzimuths(m) ==
  [i \in Blocks |->
     rawAzimuthToDouble(MessagePool[delivered[m]].packet.blocks[i].rotation)]

\* d increased by 2*pi when negative; x reduced by 2*pi when above 2*pi.
WhenNegativePlusTwoPi(d) == IF d < 0 THEN d + TWO_PI ELSE d
WhenAboveMinusTwoPi(x) == IF x > TWO_PI THEN x - TWO_PI ELSE x

\* The azimuth of firing f as C17 gives it from the block azimuths b.
C17_Azimuth(b, f) ==
  IF f % 2 = 0 THEN b[f \div 2]
  ELSE IF f < FIRINGS_PER_PACKET - 1
       THEN WhenAboveMinusTwoPi(
              b[f \div 2]
                + WhenNegativePlusTwoPi(b[f \div 2 + 1] - b[f \div 2]) \div 2)
       ELSE WhenAboveMinusTwoPi(
              b[BLOCKS_PER_PACKET - 1]
                + WhenNegativePlusTwoPi(b[BLOCKS_PER_PACKET - 1]
                                          - b[BLOCKS_PER_PACKET - 2]) \div 2)

\* C17: in every valid packet decoded, firing 2i has the azimuth b[i], firing
\* 2i+1 (i < 11) the azimuth b[i] + d/2 with d = b[i+1] - b[i], and firing 23
\* the azimuth b[11] + d/2 with d = b[11] - b[10]; d is increased by 2*pi
\* when negative and a result above 2*pi is reduced by 2*pi.
C17_FiringAzimuths ==
  \A m \in ValidDeliveries : \A f \in Firings :
    Az(m, f) = C17_Azimuth(BlockAzimuths(m), f)

\* C17 witness: valid packets were decoded in which an odd firing before the
\* last lies between a block and a numerically smaller next block and was
\* reduced by 2*pi, and in which firing 23 was reduced by 2*pi.
C17_Witness ==
  /\ \E m \in ValidDeliveries : \E i \in 0 .. BLOCKS_PER_PACKET - 2 :
       /\ BlockAzimuths(m)[i + 1] < BlockAzimuths(m)[i]
       /\ Az(m, 2 * i + 1) < BlockAzimuths(m)[i]
  /\ \E m \in ValidDeliveries :
       /\ BlockAzimuths(m)[BLOCKS_PER_PACKET - 2] <= BlockAzimuths(m)[BLOCKS_PER_PACKET - 1]
       /\ Az(m, FIRINGS_PER_PACKET - 1) < BlockAzimuths(m)[BLOCKS_PER_PACKET - 1]

\* C18: in every valid packet decoded whose raw block azimuths are at most
\* 35999, every firing azimuth is at least 0 and below 2*pi.
C18_FiringAzimuthInRange ==
  \A m \in ValidDeliveries :
    (\A i \in Blocks :
       MessagePool[delivered[m]].packet.blocks[i].rotation \in 0 .. 35999)
    => \A f \in Firings : Az(m, f) >= 0 /\ Az(m, f) < TWO_PI

\* C19: a call with a valid packet whose firing 0 is already below
\* last_azimuth while Accumulating emits the buffer as it was, with no point
\* of this packet, and leaves in the buffer exactly the accepted measurements
\* of all 24 firings; last_azimuth becomes the azimuth of firing 23 and
\* packet_start_time becomes FIRING_TOFFSET * 24.
C19_Step ==
  (/\ IsCall /\ HeadersValid(CallMsg) /\ ~is_first_sweep
   /\ CallFirings[0].firing_azimuth < last_azimuth)
  => /\ Len(published') = Len(published) + 1
     /\ SubSeq(published', 1, Len(published)) = published
     /\ published'[Len(published')] = sweep_data
     /\ \A p \in Scans :
          Sources(sweep_data'.scans[p])
            = CallMeasurements(0, FIRINGS_PER_PACKET, p)
     /\ last_azimuth' = CallFirings[FIRINGS_PER_PACKET - 1].firing_azimuth
     /\ packet_start_time' = FIRING_TOFFSET * FIRINGS_PER_PACKET

\* C19: every step of packetCallback that finds the wraparound at firing 0
\* while Accumulating emits the buffer unchanged and starts the new sweep
\* with all 24 firings of the packet (see C19_Step).
C19_WraparoundAtFirstFiring == [][C19_Step]_vars

\* C19 witness: the last call found the wraparound at firing 0; the sweep it
\* emitted holds points, none of them from this call, and the buffer holds
\* points of this call.
C19_Witness ==
  /\ Len(cuts) >= 2
  /\ cuts[Len(cuts)] = <<Len(delivered), 0>>
  /\ ~IsEmpty(published[Len(published)])
  /\ \A p \in Scans : \A j \in DOMAIN published[Len(published)].scans[p].points :
       published[Len(published)].scans[p].points[j].src[1] < Len(delivered)
  /\ ~IsEmpty(sweep_data)

\* The number of firings accumulated into the open buffer since it was
\* created or last cleared.
FiringsInBuffer ==
  IF cuts = << >> THEN 0
  ELSE (FIRINGS_PER_PACKET - cuts[Len(cuts)][2])
       + FIRINGS_PER_PACKET
           * Cardinality({x \in DecodedSet : x > cuts[Len(cuts)][1]})

C20_StartTime ==
  /\ packet_start_time = FIRING_TOFFSET * FiringsInBuffer
  /\ is_first_sweep => packet_start_time = 0

\* C20: in every state packet_start_time is FIRING_TOFFSET times the number
\* of firings accumulated into the open buffer since it was created or last
\* cleared, and 0 while is_first_sweep is true; and no step sets
\* is_first_sweep back to true.
C20_StartTimeCountsFirings ==
  /\ []C20_StartTime
  /\ [][is_first_sweep' => is_first_sweep]_vars

\* C20 witness: the decoder is Accumulating a sweep that began at a firing
\* k > 0, and a packet with a bad header was delivered after the sweep began.
C20_Witness ==
  /\ ~is_first_sweep
  /\ cuts # << >>
  /\ cuts[Len(cuts)][2] > 0
  /\ packet_start_time > 0
  /\ \E m \in DOMAIN delivered :
       m > cuts[Len(cuts)][1] /\ ~HeadersValid(MessagePool[delivered[m]])

=============================================================================
